---- MODULE Spec2Model ----
(***************************************************************************)
(* Model of the markdown component of deer-flow's web front end:           *)
(*   - dropMarkdownQuote, the code-fence unwrapping pass run on the raw     *)
(*     markdown text before it is parsed;                                   *)
(*   - Markdown.citationMap, the URL -> citation position index;           *)
(*   - Markdown.components.a, the link renderer, and CitationLink, the      *)
(*     enhanced citation link it delegates to.                              *)
(* Strings are sequences of UTF-16 code units (natural numbers).            *)
(***************************************************************************)
EXTENDS Integers, Sequences, FiniteSets, TLC

VARIABLES
    \* ---- dropMarkdownQuote ----
    markdown,     \* the argument: [isNull |-> BOOLEAN, str |-> string]
    result,       \* local `result`
    changed,      \* local `changed`
    pat,          \* position of the for-of loop in patternsToRemove (1..3)
    startIndex,   \* local `startIndex` of the inner scan (0-based)
    ret,          \* the returned value: [isNull |-> BOOLEAN, str |-> string]
    pc,           \* position in dropMarkdownQuote
    run,          \* 1: first application, 2: application to its own output
    \* ---- Markdown / CitationLink ----
    citations,    \* the `citations` prop: sequence of [url |-> string]
    citationMap,  \* the Map built by the useMemo callback: key -> 0-based index
    k,            \* number of citations the forEach has visited
    threw,        \* an exception escaped the forEach callback
    link,         \* what components.a rendered for the last link node
    click         \* what the last click on that link did

dropVars == <<markdown, result, changed, pat, startIndex, ret, pc, run>>
linkVars == <<citations, citationMap, k, threw, link, click>>
vars == <<markdown, result, changed, pat, startIndex, ret, pc, run,
          citations, citationMap, k, threw, link, click>>

(***************************************************************************)
(* Characters and strings                                                  *)
(***************************************************************************)
Ascii ==
   << " ", "!", "\"", "#", "$", "%", "&", "'", "(", ")", "*", "+", ",", "-", ".", "/",
      "0", "1", "2", "3", "4", "5", "6", "7", "8", "9", ":", ";", "<", "=", ">", "?",
      "@", "A", "B", "C", "D", "E", "F", "G", "H", "I", "J", "K", "L", "M", "N", "O",
      "P", "Q", "R", "S", "T", "U", "V", "W", "X", "Y", "Z", "[", "\\", "]", "^", "_",
      "BACKTICK", "a", "b", "c", "d", "e", "f", "g", "h", "i", "j", "k", "l", "m", "n", "o",
      "p", "q", "r", "s", "t", "u", "v", "w", "x", "y", "z", "{", "|", "}", "~" >>

\* The code unit of a one-character literal ("BACKTICK" names U+0060, which
\* a TLA+ string cannot hold).
Ord(c) == IF c = "\n" THEN 10 ELSE 31 + (CHOOSE i \in 1..Len(Ascii) : Ascii[i] = c)

\* A string literal, given character by character, as code units.
S(chars) == [i \in 1..Len(chars) |-> Ord(chars[i])]

Min(set) == CHOOSE x \in set : \A y \in set : x <= y

\* String.prototype.indexOf(search, from): 0-based position or -1.
indexOf(s, search, from) ==
    LET cands == {i \in from..(Len(s) - Len(search)) :
                     SubSeq(s, i + 1, i + Len(search)) = search}
    IN  IF cands = {} THEN -1 ELSE Min(cands)

\* String.prototype.slice(from, to) and slice(from), for 0 <= from.
slice(s, from, to) == SubSeq(s, from + 1, to)
sliceFrom(s, from) == SubSeq(s, from + 1, Len(s))

startsWith(s, prefix) ==
    /\ Len(prefix) <= Len(s)
    /\ SubSeq(s, 1, Len(prefix)) = prefix

endsWith(s, suffix) ==
    /\ Len(suffix) <= Len(s)
    /\ SubSeq(s, Len(s) - Len(suffix) + 1, Len(s)) = suffix

(***************************************************************************)
(* dropMarkdownQuote                                                       *)
(***************************************************************************)
FenceMarkdown == S(<<"BACKTICK", "BACKTICK", "BACKTICK", "m", "a", "r", "k", "d", "o", "w", "n", "\n">>)
FenceText     == S(<<"BACKTICK", "BACKTICK", "BACKTICK", "t", "e", "x", "t", "\n">>)
FenceBare     == S(<<"BACKTICK", "BACKTICK", "BACKTICK", "\n">>)
FenceClose    == S(<<"\n", "BACKTICK", "BACKTICK", "BACKTICK">>)

patternsToRemove ==
    << [prefix |-> FenceMarkdown, suffix |-> FenceClose, prefixLen |-> 12],
       [prefix |-> FenceText,     suffix |-> FenceClose, prefixLen |-> 8],
       [prefix |-> FenceBare,     suffix |-> FenceClose, prefixLen |-> 4] >>

Null == [isNull |-> TRUE, str |-> <<>>]
Str(s) == [isNull |-> FALSE, str |-> s]

\* JavaScript truthiness of a `string | null | undefined`.
Truthy(m) == ~m.isNull /\ m.str # <<>>

\* The first loop: strip one unterminated opening fence, first match only.
RECURSIVE StripUnterminated(_, _)
StripUnterminated(s, i) ==
    IF i > Len(patternsToRemove) THEN s
    ELSE LET q == patternsToRemove[i]
         IN  IF startsWith(s, q.prefix) /\ ~endsWith(s, q.suffix)
             THEN sliceFrom(s, q.prefixLen)
             ELSE StripUnterminated(s, i + 1)

\* Bounds of the inputs.
MaxPieces == 4

Pieces == {FenceMarkdown, FenceText, FenceBare, FenceClose,
           S(<<"a">>), S(<<"\n">>)}

RECURSIVE Concats(_)
Concats(n) ==
    IF n = 0 THEN {<<>>}
    ELSE LET prev == Concats(n - 1)
         IN  prev \cup {s \o q : s \in prev, q \in Pieces}

MarkdownInputs == {Null} \cup {Str(s) : s \in Concats(MaxPieces)}

\* Lines 225-243: the null check, `result = markdown`, the first loop.
DropEnter ==
    /\ pc = "entry"
    /\ IF ~Truthy(markdown)
       THEN /\ ret' = Null
            /\ pc' = "done"
            /\ UNCHANGED <<result, changed>>
       ELSE /\ result' = StripUnterminated(markdown.str, 1)
            /\ changed' = TRUE
            /\ pc' = "while"
            /\ UNCHANGED ret
    /\ UNCHANGED <<markdown, pat, startIndex, run>>
    /\ UNCHANGED linkVars

\* Lines 245-249: `while (changed)` holds; a sweep over the patterns begins.
SweepBegin ==
    /\ pc = "while"
    /\ changed
    /\ changed' = FALSE
    /\ pat' = 1
    /\ startIndex' = 0
    /\ pc' = "scan"
    /\ UNCHANGED <<markdown, result, ret, run>>
    /\ UNCHANGED linkVars

\* Lines 245, 267: `while (changed)` fails; return result.
DropReturn ==
    /\ pc = "while"
    /\ ~changed
    /\ ret' = Str(result)
    /\ pc' = "done"
    /\ UNCHANGED <<markdown, result, changed, pat, startIndex, run>>
    /\ UNCHANGED linkVars

openIndex == indexOf(result, patternsToRemove[pat].prefix, startIndex)
endIndex  == indexOf(result, patternsToRemove[pat].suffix,
                     openIndex + patternsToRemove[pat].prefixLen)

\* Lines 250-259: an opening fence with a closing fence after it is removed.
ScanRemoveBody ==
    LET q       == patternsToRemove[pat]
        before  == slice(result, 0, openIndex)
        content == slice(result, openIndex + q.prefixLen, endIndex)
        after   == sliceFrom(result, endIndex + Len(q.suffix))
    IN  /\ result' = before \o content \o after
        /\ changed' = TRUE
        /\ startIndex' = Len(before) + Len(content)

ScanRemove ==
    /\ pc = "scan"
    /\ openIndex # -1
    /\ endIndex # -1
    /\ ScanRemoveBody
    /\ UNCHANGED <<markdown, pat, ret, pc, run>>
    /\ UNCHANGED linkVars

\* The skip written without advancing past the opening fence.
ScanSkipNoAdvance ==
    startIndex' = openIndex

\* Lines 250-251, 260-262: an opening fence without a closing fence is skipped.
ScanSkipBody ==
    startIndex' = openIndex + patternsToRemove[pat].prefixLen

ScanSkip ==
    /\ pc = "scan"
    /\ openIndex # -1
    /\ endIndex = -1
    /\ ScanSkipBody
    /\ UNCHANGED <<markdown, result, changed, pat, ret, pc, run>>
    /\ UNCHANGED linkVars

\* Lines 248-250: no further opening fence of this pattern; next pattern.
ScanNextPattern ==
    /\ pc = "scan"
    /\ openIndex = -1
    /\ pat < Len(patternsToRemove)
    /\ pat' = pat + 1
    /\ startIndex' = 0
    /\ UNCHANGED <<markdown, result, changed, ret, pc, run>>
    /\ UNCHANGED linkVars

\* Lines 248-250, 264: the last pattern is exhausted; back to `while (changed)`.
SweepEnd ==
    /\ pc = "scan"
    /\ openIndex = -1
    /\ pat = Len(patternsToRemove)
    /\ pc' = "while"
    /\ UNCHANGED <<markdown, result, changed, pat, startIndex, ret, run>>
    /\ UNCHANGED linkVars

\* The function is applied again, to the string it returned.
Renormalize ==
    /\ pc = "done"
    /\ run = 1
    /\ ~ret.isNull
    /\ markdown' = ret
    /\ run' = 2
    /\ pc' = "entry"
    /\ UNCHANGED <<result, changed, pat, startIndex, ret>>
    /\ UNCHANGED linkVars

(***************************************************************************)
(* Percent-decoding and percent-encoding (ECMAScript Decode and Encode)    *)
(***************************************************************************)
Percent == Ord("%")

IsDigit(c) == c \in Ord("0")..Ord("9")

IsHex(c) == \/ IsDigit(c)
            \/ c \in Ord("A")..Ord("F")
            \/ c \in Ord("a")..Ord("f")

HexVal(c) == IF IsDigit(c) THEN c - Ord("0")
             ELSE IF c \in Ord("A")..Ord("F") THEN c - Ord("A") + 10
             ELSE c - Ord("a") + 10

HexDigit(n) == IF n < 10 THEN Ord("0") + n ELSE Ord("A") + (n - 10)

\* The outcome of a call that may throw URIError.
Ok(s) == [ok |-> TRUE, val |-> s]
URIError == [ok |-> FALSE, val |-> <<>>]

\* Number of leading 1 bits of the octet b >= 128.
LeadingOnes(b) == IF b < 192 THEN 1
                  ELSE IF b < 224 THEN 2
                  ELSE IF b < 240 THEN 3
                  ELSE IF b < 248 THEN 4
                  ELSE 5

\* The octet written as %XX at 1-based position i of s, or -1.
OctetAt(s, i) ==
    IF i + 2 <= Len(s) /\ s[i] = Percent /\ IsHex(s[i + 1]) /\ IsHex(s[i + 2])
    THEN 16 * HexVal(s[i + 1]) + HexVal(s[i + 2])
    ELSE -1

\* The code point a well-formed UTF-8 sequence of n octets encodes, or -1.
Utf8Value(octets) ==
    LET n == Len(octets)
        lead == octets[1]
        cont(j) == octets[j] - 128
        v == IF n = 2 THEN (lead - 192) * 64 + cont(2)
             ELSE IF n = 3 THEN (lead - 224) * 4096 + cont(2) * 64 + cont(3)
             ELSE (lead - 240) * 262144 + cont(2) * 4096 + cont(3) * 64 + cont(4)
        least == IF n = 2 THEN 128 ELSE IF n = 3 THEN 2048 ELSE 65536
    IN  IF \E j \in 2..n : octets[j] \notin 128..191 THEN -1
        ELSE IF v < least \/ v > 1114111 \/ v \in 55296..57343 THEN -1
        ELSE v

\* A code point as UTF-16 code units.
Utf16(v) == IF v < 65536 THEN <<v>>
            ELSE << 55296 + ((v - 65536) \div 1024), 56320 + ((v - 65536) % 1024) >>

\* decodeURIComponent(s), scanning from 1-based position i.
RECURSIVE Decode(_, _, _)
Decode(s, i, acc) ==
    IF i > Len(s) THEN Ok(acc)
    ELSE IF s[i] # Percent THEN Decode(s, i + 1, Append(acc, s[i]))
    ELSE LET b == OctetAt(s, i)
         IN  IF b = -1 THEN URIError
             ELSE IF b < 128 THEN Decode(s, i + 3, Append(acc, b))
             ELSE LET n == LeadingOnes(b)
                      octets == [j \in 1..n |-> OctetAt(s, i + 3 * (j - 1))]
                  IN  IF n = 1 \/ n > 4 THEN URIError
                      ELSE IF \E j \in 1..n : octets[j] = -1 THEN URIError
                      ELSE IF Utf8Value(octets) = -1 THEN URIError
                      ELSE Decode(s, i + 3 * n, acc \o Utf16(Utf8Value(octets)))

decodeURIComponent(s) == Decode(s, 1, <<>>)

\* The characters encodeURI leaves alone: letters, digits, the URI marks and
\* the URI reserved characters, and "#".
UriUnescaped ==
    (Ord("A")..Ord("Z")) \cup (Ord("a")..Ord("z")) \cup (Ord("0")..Ord("9"))
    \cup {Ord(c) : c \in {"-", "_", ".", "!", "~", "*", "'", "(", ")",
                          ";", "/", "?", ":", "@", "&", "=", "+", "$", ",", "#"}}

Utf8Octets(v) ==
    IF v < 128 THEN <<v>>
    ELSE IF v < 2048 THEN << 192 + (v \div 64), 128 + (v % 64) >>
    ELSE IF v < 65536
         THEN << 224 + (v \div 4096), 128 + ((v \div 64) % 64), 128 + (v % 64) >>
    ELSE << 240 + (v \div 262144), 128 + ((v \div 4096) % 64),
            128 + ((v \div 64) % 64), 128 + (v % 64) >>

RECURSIVE PercentEscape(_)
PercentEscape(octets) ==
    IF octets = <<>> THEN <<>>
    ELSE <<Percent, HexDigit(Head(octets) \div 16), HexDigit(Head(octets) % 16)>>
         \o PercentEscape(Tail(octets))

\* encodeURI(s), scanning from 1-based position i.
RECURSIVE Encode(_, _, _)
Encode(s, i, acc) ==
    IF i > Len(s) THEN Ok(acc)
    ELSE LET c == s[i]
         IN  IF c \in UriUnescaped THEN Encode(s, i + 1, Append(acc, c))
             ELSE IF c \in 56320..57343 THEN URIError
             ELSE IF c \in 55296..56319
                  THEN IF i + 1 > Len(s) \/ s[i + 1] \notin 56320..57343
                       THEN URIError
                       ELSE LET v == (c - 55296) * 1024 + (s[i + 1] - 56320) + 65536
                            IN  Encode(s, i + 2, acc \o PercentEscape(Utf8Octets(v)))
             ELSE Encode(s, i + 1, acc \o PercentEscape(Utf8Octets(c)))

encodeURI(s) == Encode(s, 1, <<>>)

\* String.prototype.trim(): white space and line terminators.
IsWhiteSpace(c) == c \in {9, 10, 11, 12, 13, 32, 160, 5760, 8232, 8233, 8239,
                          8287, 12288, 65279} \cup (8192..8202)

RECURSIVE trimStart(_)
trimStart(s) == IF s # <<>> /\ IsWhiteSpace(Head(s)) THEN trimStart(Tail(s)) ELSE s

RECURSIVE trimEnd(_)
trimEnd(s) == IF s # <<>> /\ IsWhiteSpace(s[Len(s)])
              THEN trimEnd(SubSeq(s, 1, Len(s) - 1)) ELSE s

trim(s) == trimEnd(trimStart(s))

(***************************************************************************)
(* Markdown: the citation index and the link renderer; CitationLink        *)
(***************************************************************************)
RECURSIVE ToDigits(_)
ToDigits(n) == IF n < 10 THEN <<Ord("0") + n>>
               ELSE Append(ToDigits(n \div 10), Ord("0") + (n % 10))

AllDigits(s) == s # <<>> /\ \A i \in 1..Len(s) : IsDigit(s[i])

\* `ref-${x}`
RefId(x) == S(<<"r", "e", "f", "-">>) \o x

NoMatch == [matched |-> FALSE, digits |-> <<>>]
Match(d) == [matched |-> TRUE, digits |-> d]

\* The pattern written without its leading "#".
targetMatchNoHash(hrefStr) ==
    LET prefix == S(<<"c", "i", "t", "a", "t", "i", "o", "n", "-",
                      "t", "a", "r", "g", "e", "t", "-">>)
        rest == sliceFrom(hrefStr, Len(prefix))
    IN  IF startsWith(hrefStr, prefix) /\ AllDigits(rest)
        THEN [matched |-> TRUE, digits |-> rest]
        ELSE [matched |-> FALSE, digits |-> <<>>]

\* hrefStr.match(/^#citation-target-(\d+)$/)
targetMatch(hrefStr) ==
    LET prefix == S(<<"#", "c", "i", "t", "a", "t", "i", "o", "n", "-",
                      "t", "a", "r", "g", "e", "t", "-">>)
        rest == sliceFrom(hrefStr, Len(prefix))
    IN  IF startsWith(hrefStr, prefix) /\ AllDigits(rest) THEN Match(rest) ELSE NoMatch

\* hrefStr.match(/^#(?:ref-?)?(\d+)$/)
linkMatch(hrefStr) ==
    LET rest == sliceFrom(hrefStr, 1)
        ref == S(<<"r", "e", "f">>)
        refDash == S(<<"r", "e", "f", "-">>)
    IN  IF ~startsWith(hrefStr, S(<<"#">>)) THEN NoMatch
        ELSE IF AllDigits(rest) THEN Match(rest)
        ELSE IF startsWith(rest, refDash) /\ AllDigits(sliceFrom(rest, Len(refDash)))
             THEN Match(sliceFrom(rest, Len(refDash)))
        ELSE IF startsWith(rest, ref) /\ AllDigits(sliceFrom(rest, Len(ref)))
             THEN Match(sliceFrom(rest, Len(ref)))
        ELSE NoMatch

\* /^\s*(?:\[\d+\]|\^?\d+\^?)\s*$/.test(childrenText)
inlineCitationPattern(childrenText) ==
    LET core == trim(childrenText)
        n == Len(core)
        caret == Ord("^")
        a == IF n > 0 /\ core[1] = caret THEN 2 ELSE 1
        b == IF n > 0 /\ core[n] = caret THEN n - 1 ELSE n
    IN  \/ /\ n >= 3
           /\ core[1] = Ord("[")
           /\ core[n] = Ord("]")
           /\ AllDigits(SubSeq(core, 2, n - 1))
        \/ AllDigits(SubSeq(core, a, b))

\* Array.prototype.join("") over the text nodes; String(children) for one node.
RECURSIVE join(_)
join(children) == IF children = <<>> THEN <<>>
                  ELSE Head(children) \o join(Tail(children))

\* Map.prototype.set
mapSet(map, key, value) ==
    [x \in DOMAIN map \cup {key} |-> IF x = key THEN value ELSE map[x]]

emptyMap == [x \in {} |-> 0]

\* The decoded variant computed outside any try block.
DecodedVariantNoCatch(url) ==
    LET decoded == decodeURIComponent(url)
    IN  [threw |-> ~decoded.ok,
         keys  |-> IF decoded.ok /\ decoded.val # url THEN <<decoded.val>> ELSE <<>>]

\* Lines 52-55: the decoded key the callback adds, and whether the try block
\* lets an exception out.
DecodedVariant(url) ==
    LET decoded == decodeURIComponent(url)
    IN  [threw |-> FALSE,
         keys  |-> IF decoded.ok /\ decoded.val # url THEN <<decoded.val>> ELSE <<>>]

\* Lines 58-61: the encoded key, likewise.
EncodedVariant(url) ==
    LET encoded == encodeURI(url)
    IN  [threw |-> FALSE,
         keys  |-> IF encoded.ok /\ encoded.val # url THEN <<encoded.val>> ELSE <<>>]

RECURSIVE setAll(_, _, _)
setAll(map, keys, index) ==
    IF keys = <<>> THEN map
    ELSE setAll(mapSet(map, Head(keys), index), Tail(keys), index)

\* Lines 45-62: the forEach callback for citation c at 0-based position index.
\* The outcome is the map and whether an exception escaped.
IndexCitation(map, c, index) ==
    IF c.url = <<>> THEN [map |-> map, threw |-> FALSE]
    ELSE LET m1 == mapSet(map, c.url, index)
             dv == DecodedVariant(c.url)
             m2 == setAll(m1, dv.keys, index)
             ev == EncodedVariant(c.url)
             m3 == setAll(m2, ev.keys, index)
         IN  IF dv.threw THEN [map |-> m1, threw |-> TRUE]
             ELSE IF ev.threw THEN [map |-> m2, threw |-> TRUE]
             ELSE [map |-> m3, threw |-> FALSE]

\* citationMap.get(hrefStr) ?? -1
citationIndexOf(map, hrefStr) == IF hrefStr \in DOMAIN map THEN map[hrefStr] ELSE -1

\* citation.tsx lines 46-52
normalizeUrl(url) ==
    LET decoded == decodeURIComponent(url)
    IN  IF decoded.ok THEN trim(decoded.val) ELSE trim(url)

\* Array.prototype.findIndex over the positions that satisfy a predicate.
findIndex(hits) == IF hits = {} THEN -1 ELSE Min(hits) - 1

\* citation.tsx lines 38-64: the index CitationLink resolves for href.
matchIndexOf(href, cits) ==
    IF href = <<>> THEN -1
    ELSE LET exact == findIndex({i \in 1..Len(cits) : cits[i].url = href})
         IN  IF exact # -1 THEN exact
             ELSE findIndex({i \in 1..Len(cits) :
                                normalizeUrl(cits[i].url) = normalizeUrl(href)})

NoId == <<>>

NoLink == [component |-> "none", href |-> <<>>, children |-> <<>>,
           idProp |-> NoId, id |-> NoId, index |-> -1, card |-> FALSE,
           target |-> NoId]

\* citation.tsx lines 30-125: what CitationLink renders.
CitationLink(href, children, cits, idProp) ==
    LET matchIndex == matchIndexOf(href, cits)
    IN  IF matchIndex = -1
        THEN [component |-> "CitationLink", href |-> href, children |-> children,
              idProp |-> idProp, id |-> NoId, index |-> -1, card |-> FALSE,
              target |-> NoId]
        ELSE [component |-> "CitationLink", href |-> href, children |-> children,
              idProp |-> idProp, id |-> idProp, index |-> matchIndex, card |-> TRUE,
              target |-> RefId(ToDigits(matchIndex + 1))]

\* The test written as `citations.length >= 0`.
hasCitationsOffByOne(cits) == Len(cits) >= 0

\* Line 109: `citations && citations.length > 0`
hasCitations(cits) == Len(cits) > 0

\* Lines 68-153: what components.a renders for a link node.
componentsA(href, children, cits, map) ==
    LET hrefStr == href
        tm == targetMatch(hrefStr)
        lm == linkMatch(hrefStr)
        citationIndex == citationIndexOf(map, hrefStr)
        isInline == inlineCitationPattern(join(children))
    IN  IF tm.matched
        THEN [component |-> "span", href |-> hrefStr, children |-> children,
              idProp |-> NoId, id |-> RefId(tm.digits), index |-> -1,
              card |-> FALSE, target |-> NoId]
        ELSE IF lm.matched
        THEN [component |-> "a", href |-> hrefStr, children |-> children,
              idProp |-> NoId, id |-> NoId, index |-> -1, card |-> FALSE,
              target |-> RefId(lm.digits)]
        ELSE IF hasCitations(cits)
        THEN IF citationIndex # -1
             THEN CitationLink(hrefStr, children, cits,
                               IF ~isInline THEN RefId(ToDigits(citationIndex + 1))
                               ELSE NoId)
             ELSE CitationLink(hrefStr, children, cits, NoId)
        ELSE [component |-> "Link", href |-> hrefStr, children |-> children,
              idProp |-> NoId, id |-> NoId, index |-> -1, card |-> FALSE,
              target |-> NoId]

NoClick == [happened |-> FALSE, prevented |-> FALSE, scrolledTo |-> NoId]

\* Lines 94-101 of the markdown component and citation.tsx lines 80-93: the
\* click handlers; elementExists is what document.getElementById finds.
onClick(l, elementExists) ==
    IF l.component = "a"
    THEN [happened |-> TRUE, prevented |-> TRUE,
          scrolledTo |-> IF elementExists THEN l.target ELSE NoId]
    ELSE IF l.card /\ l.index # -1 /\ elementExists
    THEN [happened |-> TRUE, prevented |-> TRUE, scrolledTo |-> l.target]
    ELSE [happened |-> TRUE, prevented |-> FALSE, scrolledTo |-> NoId]

\* Bounds and sample inputs.
MaxCitations == 2

Urls == { <<>>,
          S(<<"a">>),
          S(<<"x", " ", "y">>),
          S(<<"x", "%", "2", "0", "y">>),
          S(<<"a", "%">>),
          S(<<"#", "1">>),
          S(<<"#", "c", "i", "t", "a", "t", "i", "o", "n", "-",
              "t", "a", "r", "g", "e", "t", "-", "3">>),
          <<55296>> }

Hrefs == Urls \cup
         { S(<<"x", "%", "2", "5", "2", "0", "y">>),
           S(<<" ", "a">>),
           S(<<"b">>),
           S(<<"#", "r", "e", "f", "-", "2">>),
           S(<<"#", "r", "e", "f", "7">>),
           S(<<"#", "c", "i", "t", "a", "t", "i", "o", "n", "-",
               "t", "a", "r", "g", "e", "t", "-">>),
           S(<<"#", "c", "i", "t", "a", "t", "i", "o", "n", "-",
               "t", "a", "r", "g", "e", "t", "-", "0", "7">>) }

ChildrenSamples ==
    { <<S(<<"1">>)>>,
      <<S(<<"[">>), S(<<"1">>), S(<<"]">>)>>,
      <<S(<<" ", "^", "2", "^", "\n">>)>>,
      <<S(<<"[", "^", "1", "]">>)>>,
      <<S(<<"T", "i", "t", "l", "e">>)>>,
      <<>> }

RECURSIVE CitationLists(_)
CitationLists(n) ==
    IF n = 0 THEN {<<>>}
    ELSE LET prev == CitationLists(n - 1)
         IN  prev \cup {Append(l, [url |-> u]) : l \in prev, u \in Urls}

indexed == k = Len(citations)

\* One call of the forEach callback inside the useMemo of citationMap.
IndexStep ==
    /\ ~indexed
    /\ ~threw
    /\ LET out == IndexCitation(citationMap, citations[k + 1], k)
       IN  /\ citationMap' = out.map
           /\ threw' = out.threw
    /\ k' = k + 1
    /\ UNCHANGED <<citations, link, click>>
    /\ UNCHANGED dropVars

\* react-markdown renders one link node through components.a.
RenderLink ==
    /\ indexed
    /\ ~threw
    /\ link = NoLink
    /\ \E href \in Hrefs, children \in ChildrenSamples :
          link' = componentsA(href, children, citations, citationMap)
    /\ click' = NoClick
    /\ UNCHANGED <<citations, citationMap, k, threw>>
    /\ UNCHANGED dropVars

\* The user clicks the rendered link.
Click ==
    /\ link.component \in {"a", "CitationLink"}
    /\ \E elementExists \in BOOLEAN : click' = onClick(link, elementExists)
    /\ UNCHANGED <<citations, citationMap, k, threw, link>>
    /\ UNCHANGED dropVars

\* react-markdown goes on to the next link node of the document.
NextNode ==
    /\ link # NoLink
    /\ link' = NoLink
    /\ click' = NoClick
    /\ UNCHANGED <<citations, citationMap, k, threw>>
    /\ UNCHANGED dropVars

DropIdle ==
    /\ markdown = Null
    /\ result = <<>>
    /\ changed = FALSE
    /\ pat = 1
    /\ startIndex = 0
    /\ ret = Null
    /\ pc = "idle"
    /\ run = 1

Init ==
    /\ citations \in CitationLists(MaxCitations)
    /\ citationMap = emptyMap
    /\ k = 0
    /\ threw = FALSE
    /\ link = NoLink
    /\ click = NoClick
    /\ DropIdle

Next ==
    \/ IndexStep
    \/ RenderLink
    \/ Click
    \/ NextNode

Spec == Init /\ [][Next]_vars

LinkIdle ==
    /\ citations = <<>>
    /\ citationMap = emptyMap
    /\ k = 0
    /\ threw = FALSE
    /\ link = NoLink
    /\ click = NoClick

InitDrop ==
    /\ markdown \in MarkdownInputs
    /\ result = <<>>
    /\ changed = FALSE
    /\ pat = 1
    /\ startIndex = 0
    /\ ret = Null
    /\ pc = "entry"
    /\ run = 1
    /\ LinkIdle

NextDrop ==
    \/ DropEnter
    \/ SweepBegin
    \/ DropReturn
    \/ ScanRemove
    \/ ScanSkip
    \/ ScanNextPattern
    \/ SweepEnd
    \/ Renormalize

SpecDrop == InitDrop /\ [][NextDrop]_vars

\* dropMarkdownQuote is synchronous code: once called, it keeps running.
SpecDropFair == SpecDrop /\ WF_vars(NextDrop)

(***************************************************************************)
(* Properties                                                              *)
(***************************************************************************)
finished == pc = "done" /\ (run = 2 \/ ret.isNull)

rendered == link.component # "none"

anchorHref(hrefStr) == targetMatch(hrefStr).matched \/ linkMatch(hrefStr).matched

\* The keys the index construction derives from one citation URL.
KeysOf(url) ==
    IF url = <<>> THEN {}
    ELSE {url} \cup {DecodedVariant(url).keys[i] : i \in DOMAIN DecodedVariant(url).keys}
               \cup {EncodedVariant(url).keys[i] : i \in DOMAIN EncodedVariant(url).keys}

variantFails(url) == ~decodeURIComponent(url).ok \/ ~encodeURI(url).ok

\* C1: dropMarkdownQuote is idempotent: applied to the string it returned for a
\* non-empty input, it returns that string unchanged (here for a non-empty
\* first result; the empty string is the case of C7).
C1_Idempotent ==
    (pc = "done" /\ run = 2 /\ markdown.str # <<>>) => ret = markdown

\* C2: the citation index is first-writer-wins: once built, every key resolves
\* to the smallest list position whose citation produces that key.
C2_FirstWriterWins ==
    indexed =>
        \A key \in DOMAIN citationMap :
            citationMap[key] =
                Min({i \in 0..(Len(citations) - 1) : key \in KeysOf(citations[i + 1].url)})

\* C3 as stated: with an empty citation list every href, whatever its shape,
\* renders as the regular Link component.
C3_EmptyListAlwaysPlain ==
    (rendered /\ citations = <<>>) => link.component = "Link"

\* C3 as amended: with an empty citation list every href that matches neither
\* anchor pattern renders as the regular Link component.
C3_EmptyListPlainUnlessAnchor ==
    (rendered /\ citations = <<>> /\ ~anchorHref(link.href))
        => (link.component = "Link" /\ link.id = NoId /\ ~link.card)

C3_Witness ==
    /\ citations = <<>>
    /\ link.component = "Link"
    /\ link.href = S(<<"a">>)

\* C4: an href that is exactly "#citation-target-" followed by one or more
\* digits always renders as the reference-target label with id ref-{digits},
\* whatever the citation list and the rendered text; no later rule applies.
C4_TargetPrecedence ==
    LET prefix == S(<<"#", "c", "i", "t", "a", "t", "i", "o", "n", "-",
                      "t", "a", "r", "g", "e", "t", "-">>)
        digits == sliceFrom(link.href, Len(prefix))
    IN  (rendered /\ startsWith(link.href, prefix) /\ AllDigits(digits))
            => /\ link.component = "span"
               /\ link.id = RefId(digits)
               /\ ~link.card
               /\ link.index = -1
               /\ link.target = NoId

C4_Witness ==
    /\ link.component = "span"
    /\ link.id = S(<<"r", "e", "f", "-", "3">>)
    /\ link.href \in DOMAIN citationMap
    /\ Len(citations) > 0

\* C5: with a non-empty citation list, an href that is not a key of the index
\* and matches neither anchor pattern renders as a citation-style shell with no
\* metadata and no resolved index, and a click on it never scrolls.
C5_UnmatchedIsBareShell ==
    (rendered /\ hasCitations(citations) /\ link.href \notin DOMAIN citationMap
              /\ ~anchorHref(link.href))
        => /\ link.component = "CitationLink"
           /\ ~link.card
           /\ link.index = -1
           /\ click.happened => (~click.prevented /\ click.scrolledTo = NoId)

\* C6: for an href the index resolves to position i (rule 3, so the href matches
\* neither anchor pattern), the rendered link has the id ref-{i+1} if and only
\* if the flattened text is not a short numeric marker, and has no id when it is.
C6_InlineVsTitle ==
    (rendered /\ link.href \in DOMAIN citationMap /\ ~anchorHref(link.href))
        => LET i == citationMap[link.href]
               marker == inlineCitationPattern(join(link.children))
           IN  /\ (link.id = RefId(ToDigits(i + 1))) <=> ~marker
               /\ marker => link.id = NoId

\* C7: absent input yields null, and the empty string is returned unchanged as
\* the empty string, not as null.
C7_EmptyStringIsNotNull ==
    (pc = "done" /\ run = 1)
        => /\ markdown.isNull => ret.isNull
           /\ markdown = Str(<<>>) => ret = Str(<<>>)

\* C8 as stated: a failing decode or encode of citation i does not abort the
\* construction; citation i keeps its raw key, no key is inserted for it beyond
\* the forms that were computed, and every other citation is indexed under its
\* raw url.
C8_EveryOtherCitationIndexed ==
    /\ ~threw
    /\ indexed =>
         \A i \in 1..Len(citations) :
            variantFails(citations[i].url)
              => /\ citations[i].url \in DOMAIN citationMap
                 /\ \A key \in DOMAIN citationMap :
                       citationMap[key] = i - 1 => key \in KeysOf(citations[i].url)
                 /\ \A j \in 1..Len(citations) :
                       citations[j].url \in DOMAIN citationMap

\* C8 as amended: the same, for every other citation whose url is not empty.
C8_MalformedTolerated ==
    /\ ~threw
    /\ indexed =>
         \A i \in 1..Len(citations) :
            variantFails(citations[i].url)
              => /\ citations[i].url \in DOMAIN citationMap
                 /\ \A key \in DOMAIN citationMap :
                       citationMap[key] = i - 1 => key \in KeysOf(citations[i].url)
                 /\ \A j \in 1..Len(citations) :
                       citations[j].url # <<>> => citations[j].url \in DOMAIN citationMap

C8_Witness ==
    /\ indexed
    /\ citations = << [url |-> S(<<"a">>)], [url |-> S(<<"a", "%">>)] >>
    /\ DOMAIN citationMap = {S(<<"a">>), S(<<"a", "%">>), S(<<"a", "%", "2", "5">>)}

\* C9: dropMarkdownQuote terminates on every input: each step of the inner scan
\* shrinks the string or advances the scan position, and the call returns.
C9_Terminates ==
    /\ <>finished
    /\ [][(pc = "scan" /\ pc' = "scan" /\ pat' = pat)
            => (Len(result') < Len(result) \/ startIndex' > startIndex)]_vars

C9_Witness ==
    /\ pc = "done"
    /\ run = 1
    /\ markdown = Str(FenceBare \o FenceClose)
    /\ ret = Str(<<>>)

\* C10: for every href that is a key of citationMap, the position CitationLink
\* resolves for it equals the position citationMap holds.
C10_LookupsAgree ==
    (link.component = "CitationLink" /\ link.href \in DOMAIN citationMap)
        => link.index = citationMap[link.href]

====
